---- MODULE Spec2Model ----
(***************************************************************************)
(* Embedded languages via operator overloading: the notebook's `equal` and *)
(* `equals` functions and its three `circuit` classes (tagged tree, dict   *)
(* subclass, networkx Graph subclass), modelled as an interpreter over a   *)
(* heap of circuit objects.                                                *)
(*                                                                         *)
(* A Python value is a record [t, v, items]: t is the type tag, v the      *)
(* number it carries (an int's value, a reference's object id), items the  *)
(* elements of a list.  The heap is the sequence of circuit objects that   *)
(* constructors and operators have returned so far, in allocation order;   *)
(* an object's id is its index.  An evaluation yields a result             *)
(* [h, v, exc]: the heap afterwards, the value, and the exception raised   *)
(* ("none" when it returned normally).                                     *)
(***************************************************************************)
EXTENDS Integers, Sequences, FiniteSets, TLC

VARIABLES variant, heap, equalsDef, last

vars == <<variant, heap, equalsDef, last>>

\* Operators and equal are applied while the heap holds fewer objects than this.
MaxObjs == 4
\* Longest list handed to equals.
MaxLen == 2

(***************************** Python values *******************************)

PyInt(n) == [t |-> "int", v |-> n, items |-> <<>>]
PyBool(n) == [t |-> "bool", v |-> n, items |-> <<>>]
PyFloat(n) == [t |-> "float", v |-> n, items |-> <<>>]
PyStr == [t |-> "str", v |-> 0, items |-> <<>>]
PyNone == [t |-> "NoneType", v |-> 0, items |-> <<>>]
Ref(i) == [t |-> "ref", v |-> i, items |-> <<>>]
List(s) == [t |-> "list", v |-> 0, items |-> s]

Ok(h, val) == [h |-> h, v |-> val, exc |-> "none"]
Raise(h, e) == [h |-> h, v |-> PyNone, exc |-> e]

\* Sequencing: an exception in r ends the evaluation, otherwise F goes on
\* from r.
Then(r, F(_)) == IF r.exc # "none" THEN r ELSE F(r)

\* A constructor call: the new object is appended to the heap and returned.
Alloc(h, obj) == Ok(Append(h, obj), Ref(Len(h) + 1))

\* isinstance(other, int): bool is a subclass of int.
IsInstanceInt(x) == x.t \in {"int", "bool"}

\* Python's & and | on non-negative ints.
RECURSIVE BitAnd(_, _)
BitAnd(a, b) ==
    IF a = 0 \/ b = 0 THEN 0
    ELSE (a % 2) * (b % 2) + 2 * BitAnd(a \div 2, b \div 2)

RECURSIVE BitOr(_, _)
BitOr(a, b) ==
    IF a = 0 THEN b
    ELSE IF b = 0 THEN a
    ELSE (IF a % 2 = 1 \/ b % 2 = 1 THEN 1 ELSE 0) + 2 * BitOr(a \div 2, b \div 2)

(************************ circuit: tagged tree *****************************)

\* circuit(op, args): self.op = op; self.args = args.
tree_circuit(op, args) == [op |-> op, args |-> args]

tree_or(h, self, other) == Alloc(h, tree_circuit("or", List(<<self, other>>)))

\* Mutant: the operands land in args in the opposite order.
tree_and_swapped(h, self, other) ==
    Alloc(h, tree_circuit("and", List(<<other, self>>)))

\* Mutant: the operator rewrites self in place and returns it.
tree_and_in_place(h, self, other) ==
    Ok([h EXCEPT ![self.v] = tree_circuit("and", List(<<self, other>>))], self)

tree_and(h, self, other) == Alloc(h, tree_circuit("and", List(<<self, other>>)))

\* Mutant: 1 - (1 - a) is simplified to a.
tree_rsub_simplifying(h, self, other) ==
    IF ~IsInstanceInt(other) \/ other.v # 1
    THEN Raise(h, "ValueError")
    ELSE IF h[self.v].op = "not" THEN Ok(h, h[self.v].args.items[1])
    ELSE Alloc(h, tree_circuit("not", List(<<self>>)))

tree_rsub(h, self, other) ==
    IF ~IsInstanceInt(other) \/ other.v # 1
    THEN Raise(h, "ValueError")
    ELSE Alloc(h, tree_circuit("not", List(<<self>>)))

(************************ circuit: dict subclass ***************************)

\* circuit({key: val}): a dict with the one entry.
dict_circuit(key, val) == [key |-> key, val |-> val]

dict_or(h, self, other) == Alloc(h, dict_circuit("or", List(<<self, other>>)))

dict_and(h, self, other) == Alloc(h, dict_circuit("and", List(<<self, other>>)))

dict_rsub(h, self, other) ==
    IF ~IsInstanceInt(other) \/ other.v # 1
    THEN Raise(h, "ValueError")
    ELSE Alloc(h, dict_circuit("not", List(<<self>>)))

(*********************** circuit: networkx Graph ***************************)

\* A graph is its node list (in insertion order) and its set of undirected
\* edges, each edge the set of its two end nodes.

\* circuit(arg): Graph.__init__, then add_nodes_from([str(arg)]).
graph_circuit(arg) == [nodes |-> <<arg>>, edges |-> {}]

\* union's rename: every node name gets the prefix, node order kept.
Relabel(g, prefix) ==
    [nodes |-> [i \in DOMAIN g.nodes |-> prefix \o g.nodes[i]],
     edges |-> {{prefix \o n : n \in e} : e \in g.edges}]

NodeSet(g) == {g.nodes[i] : i \in DOMAIN g.nodes}

\* union(G, H) of two graphs already renamed: G's nodes then H's, and the
\* edges of both; it raises when the node sets meet.
Disjoint(G, H) == NodeSet(G) \cap NodeSet(H) = {}

Union(G, H) == [nodes |-> G.nodes \o H.nodes, edges |-> G.edges \cup H.edges]

\* add_edges_from: an end node the graph lacks is added after the others.
RECURSIVE AddEdges(_, _)
AddEdges(g, es) ==
    IF es = <<>> THEN g
    ELSE LET u == es[1][1]
             w == es[1][2]
             n1 == IF u \in NodeSet(g) THEN g.nodes ELSE Append(g.nodes, u)
             n2 == IF w \in {n1[i] : i \in DOMAIN n1} THEN n1 ELSE Append(n1, w)
         IN AddEdges([nodes |-> n2, edges |-> g.edges \cup {{u, w}}], Tail(es))

\* A binary operator of the graph class, for the operator's node label:
\* union(circuit(label), union(self, other, rename=("l-", "r-"))), then the
\* edges from the label to the first node of each operand.
graph_binop(h, label, self, other) ==
    IF other.t # "ref" THEN Raise(h, "AttributeError")
    ELSE LET s == h[self.v]
             o == h[other.v]
             l == Relabel(s, "l-")
             r == Relabel(o, "r-")
             top == graph_circuit(label)
         IN IF ~Disjoint(l, r) \/ ~Disjoint(top, Union(l, r))
            THEN Raise(h, "NetworkXError")
            ELSE IF s.nodes = <<>> \/ o.nodes = <<>> THEN Raise(h, "IndexError")
            ELSE Alloc(h, AddEdges(Union(top, Union(l, r)),
                                   << <<label, "l-" \o s.nodes[1]>>,
                                      <<label, "r-" \o o.nodes[1]>> >>))

graph_or(h, self, other) == graph_binop(h, "$\\vee$", self, other)

graph_and(h, self, other) == graph_binop(h, "$\\wedge$", self, other)

\* Mutant: the guard compares with 1 only, without the isinstance test.
graph_rsub_without_isinstance(h, self, other) ==
    IF other.v # 1
    THEN Raise(h, "ValueError")
    ELSE LET s == h[self.v]
             top == Relabel(graph_circuit("$\\neg$"), "")
             n == Relabel(s, "n-")
         IN Alloc(h, AddEdges(Union(top, n),
                              << <<"$\\neg$", "n-" \o s.nodes[1]>> >>))

\* union(circuit("$\neg$"), self, rename=("", "n-")), then the edge.
graph_rsub(h, self, other) ==
    IF ~IsInstanceInt(other) \/ other.v # 1
    THEN Raise(h, "ValueError")
    ELSE LET s == h[self.v]
             top == Relabel(graph_circuit("$\\neg$"), "")
             n == Relabel(s, "n-")
         IN IF ~Disjoint(top, n) THEN Raise(h, "NetworkXError")
            ELSE IF s.nodes = <<>> THEN Raise(h, "IndexError")
            ELSE Alloc(h, AddEdges(Union(top, n),
                                   << <<"$\\neg$", "n-" \o s.nodes[1]>> >>))

(********************* the class bound to `circuit` ************************)

circuit_or(h, self, other) ==
    CASE variant = "tree" -> tree_or(h, self, other)
      [] variant = "dict" -> dict_or(h, self, other)
      [] OTHER -> graph_or(h, self, other)

circuit_and(h, self, other) ==
    CASE variant = "tree" -> tree_and(h, self, other)
      [] variant = "dict" -> dict_and(h, self, other)
      [] OTHER -> graph_and(h, self, other)

circuit_rsub(h, self, other) ==
    CASE variant = "tree" -> tree_rsub(h, self, other)
      [] variant = "dict" -> dict_rsub(h, self, other)
      [] OTHER -> graph_rsub(h, self, other)

(************************ Python's operator dispatch ***********************)

\* a | b.  int | int is the built-in; a circuit on the left answers with its
\* __or__; an int on the left of a circuit finds no __ror__ on the class.
py_or(h, a, b) ==
    IF a.t = "int" /\ b.t = "int" THEN Ok(h, PyInt(BitOr(a.v, b.v)))
    ELSE IF a.t = "ref" THEN circuit_or(h, a, b)
    ELSE Raise(h, "TypeError")

\* a & b, likewise: the class defines no __rand__.
py_and(h, a, b) ==
    IF a.t = "int" /\ b.t = "int" THEN Ok(h, PyInt(BitAnd(a.v, b.v)))
    ELSE IF a.t = "ref" THEN circuit_and(h, a, b)
    ELSE Raise(h, "TypeError")

\* a - b.  The class defines __rsub__ and no __sub__: a circuit on the right
\* of a value of another type answers with __rsub__; with a circuit on the
\* left (same class on both sides, or an int on the right) nothing answers.
py_sub(h, a, b) ==
    IF a.t = "int" /\ b.t = "int" THEN Ok(h, PyInt(a.v - b.v))
    ELSE IF b.t = "ref" /\ a.t # "ref" THEN circuit_rsub(h, b, a)
    ELSE Raise(h, "TypeError")

(******************************* equal *************************************)

\* Mutant: (x & y) | ((1 - x) & y).
equal_one_negation(h, x, y) ==
    Then(py_and(h, x, y), LAMBDA r1 :
    Then(py_sub(r1.h, PyInt(1), x), LAMBDA r2 :
    Then(py_and(r2.h, r2.v, y), LAMBDA r4 :
    py_or(r4.h, r1.v, r4.v))))

\* Mutant: ((1 - x) & (1 - y)) | (x & y).
equal_disjuncts_swapped(h, x, y) ==
    Then(py_sub(h, PyInt(1), x), LAMBDA r2 :
    Then(py_sub(r2.h, PyInt(1), y), LAMBDA r3 :
    Then(py_and(r3.h, r2.v, r3.v), LAMBDA r4 :
    Then(py_and(r4.h, x, y), LAMBDA r1 :
    py_or(r1.h, r4.v, r1.v)))))

\* (x & y) | ((1 - x) & (1 - y)), evaluated left to right; the first
\* exception ends the evaluation.
equal(h, x, y) ==
    Then(py_and(h, x, y), LAMBDA r1 :
    Then(py_sub(r1.h, PyInt(1), x), LAMBDA r2 :
    Then(py_sub(r2.h, PyInt(1), y), LAMBDA r3 :
    Then(py_and(r3.h, r2.v, r3.v), LAMBDA r4 :
    py_or(r4.h, r1.v, r4.v)))))

(******************************* equals ************************************)

\* The first definition: z = 1; for i in range(len(xs)): z = z & equal(xs[i], ys[i]).
\* i counts from 1 here; ys[i] beyond the end of ys raises before equal is called.
RECURSIVE equals_loop(_, _, _, _, _)
equals_loop(h, z, xs, ys, i) ==
    IF i > Len(xs) THEN Ok(h, z)
    ELSE IF i > Len(ys) THEN Raise(h, "IndexError")
    ELSE Then(equal(h, xs[i], ys[i]), LAMBDA e :
         Then(py_and(e.h, z, e.v), LAMBDA a :
         equals_loop(a.h, a.v, xs, ys, i + 1)))

equals_imperative(h, xs, ys) == equals_loop(h, PyInt(1), xs, ys, 1)

\* zip(xs, ys): as many pairs as the shorter list has elements.
ZipLen(xs, ys) == IF Len(xs) <= Len(ys) THEN Len(xs) ELSE Len(ys)

\* es = [equal(x, y) for (x, y) in zip(xs, ys)], built from index i on.
RECURSIVE equals_es(_, _, _, _, _)
equals_es(h, es, xs, ys, i) ==
    IF i > ZipLen(xs, ys) THEN Ok(h, List(es))
    ELSE Then(equal(h, xs[i], ys[i]), LAMBDA e :
         equals_es(e.h, Append(es, e.v), xs, ys, i + 1))

\* Mutant: lambda e0, e1: e1 & e0.
RECURSIVE reduce_and_flipped(_, _, _, _)
reduce_and_flipped(h, acc, es, i) ==
    IF i > Len(es) THEN Ok(h, acc)
    ELSE Then(py_and(h, es[i], acc), LAMBDA a :
         reduce_and_flipped(a.h, a.v, es, i + 1))

\* reduce(lambda e0, e1: e0 & e1, es) from the accumulator acc and index i on.
RECURSIVE reduce_and(_, _, _, _)
reduce_and(h, acc, es, i) ==
    IF i > Len(es) THEN Ok(h, acc)
    ELSE Then(py_and(h, acc, es[i]), LAMBDA a :
         reduce_and(a.h, a.v, es, i + 1))

\* The second definition; reduce of an empty list without an initial value raises.
equals_functional(h, xs, ys) ==
    Then(equals_es(h, <<>>, xs, ys, 1), LAMBDA r :
    IF r.v.items = <<>> THEN Raise(r.h, "TypeError")
    ELSE reduce_and(r.h, r.v.items[1], r.v.items, 2))

\* Mutant: the first definition stays in effect.
equals_first_definition(h, xs, ys) == equals_imperative(h, xs, ys)

\* A call of the name `equals` runs the definition bound to it.
equals(h, xs, ys) ==
    IF equalsDef = "imperative" THEN equals_imperative(h, xs, ys)
    ELSE equals_functional(h, xs, ys)

(****************************** state **************************************)

Variants == {"int", "tree", "dict", "graph"}

\* The base circuits the notebook builds for each class.
Bases ==
    CASE variant = "tree" -> <<tree_circuit("bit", PyInt(0)), tree_circuit("bit", PyInt(1))>>
      [] variant = "dict" -> <<dict_circuit("bit", PyInt(0)), dict_circuit("bit", PyInt(1))>>
      [] variant = "graph" -> <<graph_circuit("$x_0$"), graph_circuit("$y_0$")>>
      [] OTHER -> <<>>

\* The last call made: the function, its two arguments (lists of values), the
\* definition bound to `equals` when it was made, the value returned or the
\* exception raised, and the number of objects on the heap before it.
NoCall ==
    [fn |-> "none", def |-> "unbound", xs |-> <<>>, ys |-> <<>>,
     v |-> PyNone, exc |-> "none", n0 |-> 0]

Called(fn, xs, ys, h0, r) ==
    [fn |-> fn, def |-> equalsDef, xs |-> xs, ys |-> ys,
     v |-> r.v, exc |-> r.exc, n0 |-> Len(h0)]

\* What the programmer has at hand to operate on: bits under the usual
\* interpretation, the circuits built so far otherwise.
Operands == IF variant = "int" THEN {PyInt(0), PyInt(1)} ELSE {Ref(i) : i \in DOMAIN heap}

Circuits == {Ref(i) : i \in DOMAIN heap}

\* Left operands tried for `other - c`.
LeftOperands ==
    {PyInt(0), PyInt(1), PyInt(2), PyBool(0), PyBool(1), PyFloat(1), PyStr, PyNone} \cup Circuits

Init ==
    /\ variant \in Variants
    /\ heap = Bases
    /\ equalsDef = "unbound"
    /\ last = NoCall

OpAnd ==
    /\ Len(heap) < MaxObjs
    /\ \E a \in Operands, b \in Operands :
           LET r == py_and(heap, a, b)
           IN /\ heap' = r.h
              /\ last' = Called("and", <<a>>, <<b>>, heap, r)
    /\ UNCHANGED <<variant, equalsDef>>

OpOr ==
    /\ Len(heap) < MaxObjs
    /\ \E a \in Operands, b \in Operands :
           LET r == py_or(heap, a, b)
           IN /\ heap' = r.h
              /\ last' = Called("or", <<a>>, <<b>>, heap, r)
    /\ UNCHANGED <<variant, equalsDef>>

\* other - c, with a circuit c on the right.
OpSub ==
    /\ Len(heap) < MaxObjs
    /\ \E other \in LeftOperands, c \in Circuits :
           LET r == py_sub(heap, other, c)
           IN /\ heap' = r.h
              /\ last' = Called("sub", <<other>>, <<c>>, heap, r)
    /\ UNCHANGED <<variant, equalsDef>>

CallEqual ==
    /\ Len(heap) < MaxObjs
    /\ \E x \in Operands, y \in Operands :
           LET r == equal(heap, x, y)
           IN /\ heap' = r.h
              /\ last' = Called("equal", <<x>>, <<y>>, heap, r)
    /\ UNCHANGED <<variant, equalsDef>>

Next ==
    \/ OpAnd
    \/ OpOr
    \/ OpSub
    \/ CallEqual

Spec == Init /\ [][Next]_vars

(*********************** the cell that defines equals **********************)

\* The objects that exist when the notebook calls equals: c0, c1, c0 & c1 and
\* c2 = 1 - (c0 & c1) for the tree class, c0 and c1 for the dict class, the
\* four inputs for the graph class.
NotebookHeap ==
    CASE variant = "tree" ->
             py_sub(py_and(Bases, Ref(1), Ref(2)).h, PyInt(1), Ref(3)).h
      [] variant = "graph" ->
             <<graph_circuit("$x_0$"), graph_circuit("$x_1$"),
               graph_circuit("$y_0$"), graph_circuit("$y_1$")>>
      [] OTHER -> Bases

InitEquals ==
    /\ variant \in Variants
    /\ heap = NotebookHeap
    /\ equalsDef = "unbound"
    /\ last = NoCall

\* def equals(xs, ys): ... (first definition)
DefEqualsImperative ==
    /\ equalsDef = "unbound"
    /\ equalsDef' = "imperative"
    /\ UNCHANGED <<variant, heap, last>>

\* def equals(xs, ys): ... (second definition, same cell)
DefEqualsFunctional ==
    /\ equalsDef = "imperative"
    /\ equalsDef' = "functional"
    /\ UNCHANGED <<variant, heap, last>>

\* The lists of at most n elements of S.
ListsUpTo(S, n) == UNION {[1..k -> S] : k \in 0..n}

\* The call the notebook makes once the cell has run: equals(xs, ys), on lists
\* of the operands at hand.
CallEquals ==
    /\ equalsDef # "unbound"
    /\ last.fn = "none"
    /\ \E xs \in ListsUpTo(Operands, MaxLen), ys \in ListsUpTo(Operands, MaxLen) :
           LET r == equals(heap, xs, ys)
           IN /\ heap' = r.h
              /\ last' = Called("equals", xs, ys, heap, r)
    /\ UNCHANGED <<variant, equalsDef>>

NextEquals ==
    \/ DefEqualsImperative
    \/ DefEqualsFunctional
    \/ CallEquals

SpecEquals == InitEquals /\ [][NextEquals]_vars

(************************ reading a built circuit **************************)

\* The node label each class gives an operation.
Label(op) ==
    IF variant # "graph" THEN op
    ELSE CASE op = "or" -> "$\\vee$"
           [] op = "and" -> "$\\wedge$"
           [] OTHER -> "$\\neg$"

\* The graph of an operation node over the graphs of its operands: the label
\* first, then each operand's nodes under its path prefix ("l-" and "r-" for
\* two operands, "n-" for one), with an edge from the label to each operand's
\* output node.
GNode(op, kids) ==
    LET pre == IF Len(kids) = 1 THEN <<"n-">> ELSE <<"l-", "r-">>
        sub(i) == [j \in DOMAIN kids[i].nodes |-> pre[i] \o kids[i].nodes[j]]
    IN [nodes |-> IF Len(kids) = 1 THEN <<Label(op)>> \o sub(1)
                  ELSE <<Label(op)>> \o sub(1) \o sub(2),
        edges |-> {{Label(op), pre[i] \o kids[i].nodes[1]} : i \in DOMAIN kids}
                  \cup UNION {{{pre[i] \o n : n \in e} : e \in kids[i].edges} :
                              i \in DOMAIN kids}]

\* An operand as it is to appear inside a result: the object itself for the
\* tree and dict classes, a copy of its graph for the graph class.
Obj(x) == IF variant = "graph" THEN heap[x.v] ELSE <<"obj", <<x.v>>>>

\* The circuit op(kids).
Mk(op, kids) == IF variant = "graph" THEN GNode(op, kids) ELSE <<op, kids>>

\* What object id holds, read down to the objects that existed before the
\* last call.
RECURSIVE View(_)
View(id) ==
    IF variant = "graph" THEN heap[id]
    ELSE IF id <= last.n0 THEN <<"obj", <<id>>>>
    ELSE LET its == IF variant = "tree" THEN heap[id].args.items ELSE heap[id].val.items
             op == IF variant = "tree" THEN heap[id].op ELSE heap[id].key
         IN <<op, [i \in DOMAIN its |-> View(its[i].v)]>>

\* or(and(x, y), and(not(x), not(y)))
EqualCircuit(x, y) ==
    Mk("or", <<Mk("and", <<Obj(x), Obj(y)>>),
               Mk("and", <<Mk("not", <<Obj(x)>>), Mk("not", <<Obj(y)>>)>>)>>)

\* and(...and(and(e_1, e_2), e_3)..., e_k), with e_i the equality circuit of
\* xs[i] and ys[i].
RECURSIVE Conjunction(_, _, _)
Conjunction(xs, ys, k) ==
    IF k = 1 THEN EqualCircuit(xs[1], ys[1])
    ELSE Mk("and", <<Conjunction(xs, ys, k - 1), EqualCircuit(xs[k], ys[k])>>)

\* The number of nodes of the circuit held by object id.
RECURSIVE Size(_)
RECURSIVE SizeSum(_, _)
SizeSum(its, i) ==
    IF i > Len(its) THEN 0
    ELSE (IF its[i].t = "ref" THEN Size(its[i].v) ELSE 0) + SizeSum(its, i + 1)

Size(id) ==
    CASE variant = "graph" -> Len(heap[id].nodes)
      [] variant = "tree" -> 1 + SizeSum(heap[id].args.items, 1)
      [] OTHER -> 1 + SizeSum(heap[id].val.items, 1)

\* Object id is the circuit not(c).
IsNotOver(id, c) ==
    CASE variant = "tree" -> heap[id] = [op |-> "not", args |-> List(<<c>>)]
      [] variant = "dict" -> heap[id] = [key |-> "not", val |-> List(<<c>>)]
      [] OTHER -> heap[id] = GNode("not", <<heap[c.v]>>)

\* The last call returned a circuit object that it built.
ReturnedNew == last.exc = "none" /\ last.v.t = "ref" /\ last.v.v > last.n0

\* The last call raised exception e and built nothing.
Rejected(e) == last.exc = e /\ Len(heap) = last.n0

(******************************* claims ************************************)

\* C1 as stated: other - c is a 'not' circuit over c when other is the
\* constant 1, and for every other left operand it raises ValueError and
\* builds nothing.  (The constant 1 is read here as any int instance equal
\* to 1, True included, the reading most favourable to the statement.)
C1_AsStated ==
    last.fn = "sub" =>
        IF IsInstanceInt(last.xs[1]) /\ last.xs[1].v = 1
        THEN ReturnedNew /\ IsNotOver(last.v.v, last.ys[1])
        ELSE Rejected("ValueError")

\* C1 amended: other - c is a new 'not' circuit over c when other is an int
\* instance equal to 1 (1 or True); a circuit on the left raises TypeError
\* (__rsub__ is not called); any other int, bool, float, str or None raises
\* ValueError; the two rejections build nothing.
C1_RsubGuard ==
    last.fn = "sub" =>
        LET other == last.xs[1]
        IN CASE other.t \in {"int", "bool"} /\ other.v = 1 ->
                    /\ ReturnedNew
                    /\ Len(heap) = last.n0 + 1
                    /\ IsNotOver(last.v.v, last.ys[1])
             [] other.t = "ref" -> Rejected("TypeError")
             [] OTHER -> Rejected("ValueError")

C1_Witness ==
    /\ last.fn = "sub"
    /\ variant = "graph"
    /\ last.xs[1] = PyInt(2)
    /\ last.exc = "ValueError"

\* C2: on bits x and y, equal(x, y) is 1 when x = y and 0 otherwise, a bit.
C2_EqualOnBits ==
    (variant = "int" /\ last.fn = "equal") =>
        /\ last.exc = "none"
        /\ last.v = PyInt(IF last.xs[1].v = last.ys[1].v THEN 1 ELSE 0)
        /\ last.v.v \in {0, 1}

C2_Witness ==
    /\ variant = "int"
    /\ last.fn = "equal"
    /\ last.xs[1] = PyInt(0)
    /\ last.ys[1] = PyInt(0)
    /\ last.v = PyInt(1)

\* C3 as stated: on two lists of bits of equal length, equals returns 1 when
\* the lists agree at every index and 0 otherwise.
C3_AsStated ==
    (variant = "int" /\ last.fn = "equals" /\ Len(last.xs) = Len(last.ys)) =>
        /\ last.exc = "none"
        /\ last.v = PyInt(IF last.xs = last.ys THEN 1 ELSE 0)

\* C4 as stated: on two non-empty lists of circuits of equal length, either
\* definition of equals completes without error and returns a circuit.
C4_AsStated ==
    (variant # "int" /\ last.fn = "equals"
        /\ Len(last.xs) = Len(last.ys) /\ Len(last.xs) >= 1) =>
        /\ last.exc = "none"
        /\ last.v.t = "ref"

\* C5: in the tree class a & b is a new circuit with op 'and' and args
\* [a, b], a | b a new circuit with op 'or' and args [a, b], 1 - a a new
\* circuit with op 'not' and args [a]; the result is a circuit on the heap,
\* to be used as an operand in turn.
C5_TreeOperators ==
    (variant = "tree" /\ last.fn \in {"and", "or", "sub"}
        /\ (last.fn = "sub" => last.xs[1] = PyInt(1))) =>
        /\ ReturnedNew
        /\ Len(heap) = last.n0 + 1
        /\ last.v \in Circuits
        /\ heap[last.v.v] =
               IF last.fn = "sub"
               THEN [op |-> "not", args |-> List(<<last.ys[1]>>)]
               ELSE [op |-> last.fn, args |-> List(<<last.xs[1], last.ys[1]>>)]

\* c2 = 1 - (c0 & c1): an operator applied to an operator's result.
C5_Witness ==
    /\ variant = "tree"
    /\ last.fn = "sub"
    /\ last.xs[1] = PyInt(1)
    /\ last.exc = "none"
    /\ heap[last.ys[1].v] = [op |-> "and", args |-> List(<<Ref(1), Ref(2)>>)]

\* C6: on circuits x and y, equal(x, y) returns
\* or(and(x, y), and(not(x), not(y))).
C6_EqualOnCircuits ==
    (variant # "int" /\ last.fn = "equal") =>
        /\ ReturnedNew
        /\ View(last.v.v) = EqualCircuit(last.xs[1], last.ys[1])

\* x a base circuit, y a composite one.
C6_Witness ==
    /\ variant = "tree"
    /\ last.fn = "equal"
    /\ last.exc = "none"
    /\ heap[last.xs[1].v].op = "bit"
    /\ heap[last.ys[1].v].op = "not"

C8_NoSimplification ==
    (variant # "int" /\ last.fn \in {"and", "or", "sub"} /\ last.exc = "none") =>
        /\ ReturnedNew
        /\ Size(last.v.v) =
               IF last.fn = "sub" THEN 1 + Size(last.ys[1].v)
               ELSE 1 + Size(last.xs[1].v) + Size(last.ys[1].v)

\* 1 - (1 - a)
C8_Witness ==
    /\ variant # "int"
    /\ last.fn = "sub"
    /\ last.exc = "none"
    /\ \E a \in Circuits : IsNotOver(last.ys[1].v, a)
    /\ Size(last.v.v) = 3

C10_OperandsUnchanged ==
    [][\A i \in DOMAIN heap : i \in DOMAIN heap' /\ heap'[i] = heap[i]]_vars

\* equal(x, y) has used x and y twice each.
C10_Witness ==
    /\ variant # "int"
    /\ last.fn = "equal"
    /\ last.exc = "none"
    /\ Len(heap) = last.n0 + 5

====
